---- MODULE Spec2Model ----
(***************************************************************************)
(* A model of stitch.py: the section header codec (Header), the streaming  *)
(* splitter (chunkify, split_file), the section registry (register, check) *)
(* and the streaming stitcher (dechunkify, stitch_files), over a small     *)
(* file system.  Bytes are natural numbers, a file is a sequence of bytes, *)
(* a name is a sequence of code points.                                    *)
(***************************************************************************)
EXTENDS Integers, Sequences, FiniteSets, TLC

(***************************************************************************)
(* Bounds of the model.                                                    *)
(***************************************************************************)
\* longest input file, in bytes
MaxLen == 3
\* largest payload capacity of a section (size - Header.SIZE)
MaxPayload == 2
\* largest read-chunk size tried for CHUNK
MaxChunk == 2
\* largest section index a candidate header of the stitch scan carries
MaxIndex == 2
\* number of candidate files of the stitch scan
MaxCand == 2
\* the number of characters a name has after its run of x
MaxTail == 2

\* the byte values an input file is made of
InputByte == {0, 1}

(***************************************************************************)
(* Sequence helpers.                                                       *)
(***************************************************************************)
Min(a, b) == IF a <= b THEN a ELSE b

\* buf[:n]
Take(s, n) == SubSeq(s, 1, Min(n, Len(s)))

\* buf[n:]
Drop(s, n) == SubSeq(s, n + 1, Len(s))

Zeros(n) == [i \in 1..n |-> 0]

Range(s) == {s[i] : i \in DOMAIN s}

\* all sequences over S of length at most n
SeqsUpTo(S, n) == UNION {[1..k -> S] : k \in 0..n}

(***************************************************************************)
(* UTF-8 (str.encode("utf-8") / bytes.decode("utf-8")).                    *)
(***************************************************************************)
EncodeChar(c) ==
    IF c < 128 THEN <<c>>
    ELSE IF c < 2048 THEN <<192 + (c \div 64), 128 + (c % 64)>>
    ELSE IF c < 65536
         THEN <<224 + (c \div 4096), 128 + ((c \div 64) % 64), 128 + (c % 64)>>
    ELSE <<240 + (c \div 262144), 128 + ((c \div 4096) % 64),
           128 + ((c \div 64) % 64), 128 + (c % 64)>>

\* the encodings of the characters one after the other (the name is cut in
\* halves to keep the recursion shallow)
RECURSIVE Utf8Encode(_)
Utf8Encode(name) ==
    IF name = <<>> THEN <<>>
    ELSE IF Len(name) = 1 THEN EncodeChar(name[1])
    ELSE Utf8Encode(SubSeq(name, 1, Len(name) \div 2))
         \o Utf8Encode(SubSeq(name, Len(name) \div 2 + 1, Len(name)))

IsCont(b) == b >= 128 /\ b <= 191

\* the number of bytes of the well-formed character that starts buf, 0 if none
CharLen(buf) ==
    LET b == buf[1] IN
    IF b < 128 THEN 1
    ELSE IF b >= 194 /\ b <= 223
         THEN IF Len(buf) >= 2 /\ IsCont(buf[2]) THEN 2 ELSE 0
    ELSE IF b >= 224 /\ b <= 239
         THEN IF /\ Len(buf) >= 3 /\ IsCont(buf[2]) /\ IsCont(buf[3])
                 /\ (b = 224 => buf[2] >= 160)
                 /\ (b = 237 => buf[2] <= 159)
              THEN 3 ELSE 0
    ELSE IF b >= 240 /\ b <= 244
         THEN IF /\ Len(buf) >= 4 /\ IsCont(buf[2]) /\ IsCont(buf[3])
                 /\ IsCont(buf[4])
                 /\ (b = 240 => buf[2] >= 144)
                 /\ (b = 244 => buf[2] <= 143)
              THEN 4 ELSE 0
    ELSE 0

DecodeChar(buf, n) ==
    IF n = 1 THEN buf[1]
    ELSE IF n = 2 THEN (buf[1] - 192) * 64 + (buf[2] - 128)
    ELSE IF n = 3
         THEN (buf[1] - 224) * 4096 + (buf[2] - 128) * 64 + (buf[3] - 128)
    ELSE (buf[1] - 240) * 262144 + (buf[2] - 128) * 4096
         + (buf[3] - 128) * 64 + (buf[4] - 128)

\* [ok |-> TRUE, s |-> code points] or [ok |-> FALSE, s |-> <<>>].  A long
\* buffer is decoded in two parts cut at a byte near its middle that is no
\* continuation byte (no character has four of them in a row), which keeps
\* the recursion shallow
RECURSIVE Utf8Decode(_)
Utf8Decode(buf) ==
    IF buf = <<>> THEN [ok |-> TRUE, s |-> <<>>]
    ELSE IF Len(buf) <= 8
    THEN LET n == CharLen(buf) IN
         IF n = 0 THEN [ok |-> FALSE, s |-> <<>>]
         ELSE LET rest == Utf8Decode(Drop(buf, n)) IN
              IF rest.ok
              THEN [ok |-> TRUE, s |-> <<DecodeChar(buf, n)>> \o rest.s]
              ELSE rest
    ELSE LET mid == Len(buf) \div 2
             cuts == {i \in (mid - 2)..(mid + 1) : ~IsCont(buf[i])}
         IN  IF cuts = {} THEN [ok |-> FALSE, s |-> <<>>]
             ELSE LET m == CHOOSE i \in cuts : \A j \in cuts : i <= j
                      left == Utf8Decode(SubSeq(buf, 1, m - 1))
                      right == Utf8Decode(SubSeq(buf, m, Len(buf)))
                  IN  IF left.ok /\ right.ok
                      THEN [ok |-> TRUE, s |-> left.s \o right.s]
                      ELSE [ok |-> FALSE, s |-> <<>>]

(***************************************************************************)
(* Header: the 128-byte section header.                                    *)
(***************************************************************************)
SIZE == 128
MAGIC == <<66, 82, 83>>
FLAG_LAST == 1
FLAG_COMP == 2
NAMESZ == SIZE - 8

Header(name, index, comp, last) ==
    [name |-> name, index |-> index, comp |-> comp, last |-> last]

\* struct.pack("<I", index)
PackU32(n) ==
    <<n % 256, (n \div 256) % 256, (n \div 65536) % 256,
      (n \div 16777216) % 256>>

\* struct.unpack_from("<I", buf, 4)
UnpackU32(buf, off) ==
    buf[off + 1] + 256 * buf[off + 2] + 65536 * buf[off + 3]
    + 16777216 * buf[off + 4]

\* bytes.ljust(n, b"\x00")
Ljust(s, n) == IF Len(s) >= n THEN s ELSE s \o Zeros(n - Len(s))

\* bytes.rstrip(b"\x00")
Rstrip(s) ==
    LET kept == {i \in DOMAIN s : s[i] # 0} IN
    IF kept = {} THEN <<>>
    ELSE SubSeq(s, 1, CHOOSE i \in kept : \A j \in kept : j <= i)

\* Header.write
HeaderWrite(h) ==
    LET flags == (IF h.comp THEN FLAG_COMP ELSE 0)
                 + (IF h.last THEN FLAG_LAST ELSE 0)
        name == Ljust(Take(Utf8Encode(h.name), NAMESZ), NAMESZ)
    IN  MAGIC \o <<flags>> \o PackU32(h.index) \o name

\* HeaderRead without the check of the magic number
HeaderReadAnyMagic(buf) ==
    IF Len(buf) # SIZE THEN [ok |-> FALSE, err |-> "header must be 128B"]
    ELSE IF buf[4] \div (FLAG_LAST + FLAG_COMP + 1) # 0
         THEN [ok |-> FALSE, err |-> "invalid flags"]
    ELSE LET name == Utf8Decode(Rstrip(Drop(buf, 8))) IN
         IF ~name.ok THEN [ok |-> FALSE, err |-> "invalid utf-8"]
         ELSE [ok |-> TRUE,
               h |-> Header(name.s, UnpackU32(buf, 4),
                            (buf[4] \div FLAG_COMP) % 2 = 1,
                            buf[4] % 2 = 1)]

\* HeaderRead without the check of the flag bits
HeaderReadAnyFlags(buf) ==
    IF Len(buf) # SIZE THEN [ok |-> FALSE, err |-> "header must be 128B"]
    ELSE IF Take(buf, 3) # MAGIC
         THEN [ok |-> FALSE, err |-> "incorrect magic number"]
    ELSE LET name == Utf8Decode(Rstrip(Drop(buf, 8))) IN
         IF ~name.ok THEN [ok |-> FALSE, err |-> "invalid utf-8"]
         ELSE [ok |-> TRUE,
               h |-> Header(name.s, UnpackU32(buf, 4),
                            (buf[4] \div FLAG_COMP) % 2 = 1,
                            buf[4] % 2 = 1)]

\* Header.read: [ok |-> TRUE, h |-> header] or [ok |-> FALSE, err |-> reason]
HeaderRead(buf) ==
    IF Len(buf) # SIZE THEN [ok |-> FALSE, err |-> "header must be 128B"]
    ELSE IF Take(buf, 3) # MAGIC
         THEN [ok |-> FALSE, err |-> "incorrect magic number"]
    ELSE IF buf[4] \div (FLAG_LAST + FLAG_COMP + 1) # 0
         THEN [ok |-> FALSE, err |-> "invalid flags"]
    ELSE LET name == Utf8Decode(Rstrip(Drop(buf, 8))) IN
         IF ~name.ok THEN [ok |-> FALSE, err |-> "invalid utf-8"]
         ELSE [ok |-> TRUE,
               h |-> Header(name.s, UnpackU32(buf, 4),
                            (buf[4] \div FLAG_COMP) % 2 = 1,
                            buf[4] % 2 = 1)]

(***************************************************************************)
(* The streaming transform.  zlib is modelled by a run-length codec with   *)
(* the properties chunkify and dechunkify rely on: the compressor keeps    *)
(* state between calls (the run in progress), its output is not the input, *)
(* flush() appends the pending run and an end-of-stream marker, so even    *)
(* the empty input compresses to a non-empty stream, and the decompressor  *)
(* keeps state between calls (a count whose value byte has not arrived).   *)
(* A compressed stream is a sequence of (count, value) pairs ended by 0.   *)
(***************************************************************************)
\* zlib.compressobj()
compressobj == [val |-> 0, len |-> 0]

\* compressor.compress(chunk): [c |-> compressor after, out |-> bytes returned]
RECURSIVE Compress(_, _)
Compress(c, chunk) ==
    IF chunk = <<>> THEN [c |-> c, out |-> <<>>]
    ELSE LET b == Head(chunk) IN
         IF c.len > 0 /\ c.val = b
         THEN Compress([val |-> b, len |-> c.len + 1], Tail(chunk))
         ELSE LET r == Compress([val |-> b, len |-> 1], Tail(chunk)) IN
              [c |-> r.c,
               out |-> (IF c.len > 0 THEN <<c.len, c.val>> ELSE <<>>) \o r.out]

\* compressor.flush()
CompressFlush(c) == (IF c.len > 0 THEN <<c.len, c.val>> ELSE <<>>) \o <<0>>

\* zlib.decompressobj(): cnt is the count read whose value is still to come
decompressobj == [cnt |-> 0, eof |-> FALSE]

\* decompressor.decompress(chunk): [d |-> decompressor after, out |-> bytes]
RECURSIVE Decompress(_, _)
Decompress(d, chunk) ==
    IF chunk = <<>> \/ d.eof THEN [d |-> d, out |-> <<>>]
    ELSE LET b == Head(chunk) IN
         IF d.cnt = 0
         THEN IF b = 0 THEN [d |-> [cnt |-> 0, eof |-> TRUE], out |-> <<>>]
              ELSE Decompress([cnt |-> b, eof |-> FALSE], Tail(chunk))
         ELSE LET r == Decompress([cnt |-> 0, eof |-> FALSE], Tail(chunk)) IN
              [d |-> r.d, out |-> [i \in 1..d.cnt |-> b] \o r.out]

\* decompressor.flush(): nothing is held back
DecompressFlush(d) == <<>>


(***************************************************************************)
(* Paths.  A path is <<kind, name, i>>: the original or stitched file      *)
(* <<"file", name, 0>>, the flat section file <<"sec", stem, i>>, the      *)
(* section directory <<"dir", stem, 0>>, the nested section file           *)
(* <<"nsec", stem, i>> inside it, and <<"cand", <<>>, k>> for a candidate  *)
(* handed to the stitcher.  A "sec", "nsec" or "cand" path has suffix EXT. *)
(***************************************************************************)
\* the name "x" of the file that is split; its stem is the same
FileName == <<120>>
\* a second original name, "y"
OtherName == <<121>>

FilePath(name) == <<"file", name, 0>>
DirPath(stem) == <<"dir", stem, 0>>
CandPath(k) == <<"cand", <<>>, k>>

\* Path(header.name), relative to the working directory
OutPath(name) == FilePath(name)

\* split_file.nameof
nameof(nested, stem, i) ==
    IF nested THEN <<"nsec", stem, i>> ELSE <<"sec", stem, i>>

\* the files inside a directory
Inside(files, dir) == {p \in DOMAIN files : p[1] = "nsec" /\ p[2] = dir[2]}

\* a file system without the files in ps
Without(files, ps) == [p \in DOMAIN files \ ps |-> files[p]]

\* a file system with file p holding content
WithFile(files, p, content) ==
    [q \in DOMAIN files \cup {p} |-> IF q = p THEN content ELSE files[q]]

VARIABLES
    \* the file system: fs maps each existing regular file to its bytes,
    \* dirs is the set of existing directories
    fs, dirs,
    \* the arguments of the run
    size, compress, nest, delete_original, keep_sections, CHUNK,
    \* the ask singleton; heard is history: an always answer was accepted
    \* in some context of the run
    ask_ctx, always_yes, heard,
    \* where the program is, and the exception that left it ("" if none)
    pc, exc,
    \* split_file and chunkify: locals
    index, section_paths, data, compressor, pos,
    \* stitch_files: locals
    paths, allpaths, stitches, to_delete, scan, st_index, decompressor,
    \* history: the input as it was, the calls of process, the files the
    \* split created, the last prompt since an ask context was entered or
    \* left (<<>> if none)
    original, calls, written, asked,
    \* history of the stitch: the candidates scanned, the groups check
    \* looked at, the groups whose output was opened, the groups stitched,
    \* the section files that vanished after validation, the section files
    \* dechunkify has opened
    seen, checked, opened, stitched, vanished, reads,
    \* a Header that is constructed, the bytes it was written to, and what
    \* Header.read made of them
    hdr_in, hdr_buf, hdr_out

cfgVars == <<size, compress, nest, delete_original, keep_sections, CHUNK>>
askVars == <<ask_ctx, always_yes, heard>>
splitVars == <<index, section_paths, data, compressor, pos>>
stitchVars == <<paths, allpaths, stitches, to_delete, scan, st_index,
                decompressor>>
splitHist == <<original, calls, written>>
stitchHist == <<seen, checked, opened, stitched, vanished, reads>>
headerVars == <<hdr_in, hdr_buf, hdr_out>>
vars == <<fs, dirs, cfgVars, askVars, pc, exc, splitVars, stitchVars,
          splitHist, asked, stitchHist, headerVars>>

(***************************************************************************)
(* ask: the confirmation singleton.                                        *)
(***************************************************************************)
NONE == 0
NO == 1
YES == 2

\* Replies with the always answer taken outside of a context as well
RepliesAnywhere(ctx, always) ==
    IF always \/ ctx = YES THEN {"auto"} ELSE {"y", "n", "a"}

\* ask.__call__: what the prompt can return with. "auto" is the answer
\* printed without reading input; "a" is offered only inside a context
Replies(ctx, always) ==
    IF always \/ ctx = YES THEN {"auto"}
    ELSE IF ctx # NONE THEN {"y", "n", "a"}
    ELSE {"y", "n"}

\* the value ask returns
Said(reply) == reply # "n"

\* ask._ctx after the prompt
CtxAfter(ctx, reply) == IF reply = "a" THEN YES ELSE ctx

Prompt(query, reply) == [q |-> query, r |-> reply, ctx |-> ask_ctx]


(***************************************************************************)
(* split_file.                                                             *)
(***************************************************************************)
\* the path handed to split_file
InPath == FilePath(FileName)

\* the payload capacity chunkify is called with
max_size == size - SIZE

\* file.read(n) at offset off
FileRead(content, off, n) == SubSeq(content, off + 1, Min(off + n, Len(content)))

\* Feed with a compressor made anew for every chunk
FeedFresh(c, chunk) ==
    IF compress THEN Compress(compressobj, chunk) ELSE [c |-> c, out |-> chunk]

\* chunkify, lines 275-278: what one read chunk adds to data
Feed(c, chunk) ==
    IF compress THEN Compress(c, chunk) ELSE [c |-> c, out |-> chunk]

\* Finish without the flush of the compressor
FinishNoFlush(c) == <<>>

\* chunkify, lines 288-289: what the end of the input adds to data
Finish(c) == IF compress THEN CompressFlush(c) ELSE <<>>

\* split_file.matching_section_file
matching_section_file(p) ==
    /\ p \in DOMAIN fs
    /\ p[1] = "sec"
    /\ LET r == HeaderRead(FileRead(fs[p], 0, SIZE)) IN
       r.ok /\ r.h.name = FileName

\* delete_paths(*ps): files are unlinked, directories removed as trees
DeletedFiles(ps) ==
    Without(fs, (ps \cap DOMAIN fs)
                \cup UNION {Inside(fs, d) : d \in ps \cap dirs})

DeletedDirs(ps) == dirs \ ps

\* chunkify, lines 283 and 294: data after a block was processed
Rest(buf) == Drop(buf, max_size)

\* Looping without the final call of process
LoopingNoFinal(at, buf) ==
    IF at = "emit" THEN (IF Len(buf) > max_size THEN "emit" ELSE "read")
    ELSE (IF Len(buf) > max_size THEN "tail" ELSE "after")

\* Looping with the loops run while len(data) >= max_size
LoopingAtLeast(at, buf) ==
    IF at = "emit" THEN (IF Len(buf) >= max_size THEN "emit" ELSE "read")
    ELSE (IF Len(buf) >= max_size THEN "tail" ELSE "final")

\* the pc chunkify continues at while pc is "emit" or "tail": the inner
\* while loops of lines 281 and 292
Looping(at, buf) ==
    IF at = "emit" THEN (IF Len(buf) > max_size THEN "emit" ELSE "read")
    ELSE (IF Len(buf) > max_size THEN "tail" ELSE "final")

\* chunkify, lines 281-283 and 292-294: the calls of process one inner while
\* loop makes on the data buf, and the data it leaves
RECURSIVE Drain(_)
Drain(buf) ==
    IF Len(buf) > max_size
    THEN LET r == Drain(Rest(buf)) IN
         [calls |-> <<[chunk |-> Take(buf, max_size), last |-> FALSE]>>
                    \o r.calls,
          data |-> r.data]
    ELSE [calls |-> <<>>, data |-> buf]

\* chunkify, lines 267-297, as a function: the calls of process for a file
\* of this content read n bytes at a time, from the offset off on with the
\* compressor c and the data buf
RECURSIVE chunkify(_, _, _, _, _)
chunkify(content, n, off, c, buf) ==
    LET chunk == FileRead(content, off, n) IN
    IF chunk # <<>>
    THEN LET r == Feed(c, chunk)
             d == Drain(buf \o r.out)
         IN  d.calls \o chunkify(content, n, off + Len(chunk), r.c, d.data)
    ELSE LET d == Drain(buf \o Finish(c)) IN
         d.calls \o <<[chunk |-> Take(d.data, max_size), last |-> TRUE]>>

\* split_file, lines 326-366: the section directory, or the check for
\* section files of this input that already exist
SplitEnter ==
    /\ pc = "split"
    /\ LET dirpath == DirPath(FileName)
           matching == {p \in DOMAIN fs : matching_section_file(p)}
           query == IF nest
                    THEN dirpath \in dirs /\ Inside(fs, dirpath) # {}
                    ELSE matching # {}
       IN  \E reply \in IF query THEN Replies(ask_ctx, always_yes) ELSE {""} :
             /\ asked' = IF query
                         THEN <<Prompt("overwrite", reply)>>
                         ELSE asked
             /\ ask_ctx' = CtxAfter(ask_ctx, reply)
             /\ heard' = (heard \/ reply = "a")
             /\ IF query /\ ~Said(reply)
                THEN /\ pc' = "split_raised"
                     /\ exc' = "StitchError"
                     /\ UNCHANGED <<fs, dirs>>
                ELSE /\ pc' = "open"
                     /\ exc' = exc
                     /\ fs' = IF nest THEN DeletedFiles({dirpath})
                              ELSE DeletedFiles(matching)
                     /\ dirs' = IF nest THEN dirs \cup {dirpath} ELSE dirs
    /\ UNCHANGED <<headerVars, cfgVars, always_yes, splitVars, stitchVars, splitHist,
                   stitchHist>>

\* split_file, lines 388-395: open_for_read(path), then the ask context
\* and the start of chunkify
SplitOpen ==
    /\ pc = "open"
    /\ IF InPath \in DOMAIN fs
       THEN /\ asked' = <<>>
            /\ heard' = heard
            /\ IF ask_ctx # NONE
               THEN /\ pc' = "except" /\ exc' = "Exception"
                    /\ ask_ctx' = ask_ctx
               ELSE /\ pc' = "read" /\ exc' = exc
                    /\ ask_ctx' = NO
       ELSE \E reply \in Replies(ask_ctx, always_yes) :
              /\ asked' = <<Prompt("ignore", reply)>>
              /\ ask_ctx' = CtxAfter(ask_ctx, reply)
              /\ heard' = (heard \/ reply = "a")
              /\ IF Said(reply)
                 THEN pc' = "after" /\ exc' = exc
                 ELSE pc' = "except" /\ exc' = "StitchError"
    /\ index' = 0
    /\ section_paths' = <<>>
    /\ data' = <<>>
    /\ compressor' = compressobj
    /\ pos' = 0
    /\ UNCHANGED <<headerVars, fs, dirs, cfgVars, always_yes, stitchVars, splitHist,
                   stitchHist>>

\* chunkify, lines 273-279 and 285-289: one read of the input
ChunkRead ==
    /\ pc = "read"
    /\ LET chunk == FileRead(fs[InPath], pos, CHUNK) IN
       IF chunk # <<>>
       THEN LET r == Feed(compressor, chunk) IN
            /\ data' = data \o r.out
            /\ compressor' = r.c
            /\ pos' = pos + Len(chunk)
            /\ pc' = Looping("emit", data')
       ELSE /\ data' = data \o Finish(compressor)
            /\ pc' = Looping("tail", data')
            /\ UNCHANGED <<compressor, pos>>
    /\ UNCHANGED <<headerVars, fs, dirs, cfgVars, askVars, exc, index, section_paths,
                   stitchVars, splitHist, asked, stitchHist>>

\* chunkify, lines 282-283, 293-294 and 297: one call of process, which is
\* split_file.process, lines 371-386.  The write can fail or be interrupted
\* after the file was created
ProcessBlock ==
    /\ pc \in {"emit", "tail", "final"}
    /\ LET last == pc = "final"
           chunk == Take(data, max_size)
           this == nameof(nest, FileName, index)
           header == Header(FileName, index, compress, last)
           query == this \in DOMAIN fs
       IN  \E reply \in IF query THEN Replies(ask_ctx, always_yes) ELSE {""},
              outcome \in {"ok", "OSError", "KeyboardInterrupt"} :
             /\ calls' = Append(calls, [chunk |-> chunk, last |-> last])
             /\ heard' = (heard \/ reply = "a")
             /\ asked' = IF last /\ Said(reply) /\ outcome = "ok" THEN <<>>
                         ELSE IF query THEN <<Prompt("overwrite", reply)>>
                         ELSE asked
             /\ IF query /\ ~Said(reply)
                THEN \* open_for_write raises: nothing was created
                     /\ pc' = "except" /\ exc' = "StitchError"
                     /\ ask_ctx' = NONE
                     /\ UNCHANGED <<fs, index, section_paths, data, written>>
                ELSE IF outcome = "ok"
                THEN /\ fs' = WithFile(fs, this, HeaderWrite(header) \o chunk)
                     /\ written' = written \cup {this}
                     /\ section_paths' = Append(section_paths, this)
                     /\ index' = index + 1
                     /\ data' = IF last THEN data ELSE Rest(data)
                     /\ pc' = IF last THEN "after" ELSE Looping(pc, data')
                     /\ ask_ctx' = IF last THEN NONE
                                   ELSE CtxAfter(ask_ctx, reply)
                     /\ exc' = exc
                ELSE /\ fs' = WithFile(fs, this,
                                IF outcome = "OSError"
                                THEN HeaderWrite(header) ELSE <<>>)
                     /\ written' = written \cup {this}
                     /\ section_paths' = Append(section_paths, this)
                     /\ pc' = "except" /\ exc' = outcome
                     /\ ask_ctx' = NONE
                     /\ UNCHANGED <<index, data>>
    /\ UNCHANGED <<headerVars, dirs, cfgVars, always_yes, compressor, pos, stitchVars,
                   original, stitchHist>>

\* a keyboard interrupt between two calls of process
Interrupt ==
    /\ pc = "read"
    /\ pc' = "except"
    /\ exc' = "KeyboardInterrupt"
    /\ ask_ctx' = NONE
    /\ UNCHANGED <<headerVars, fs, dirs, cfgVars, always_yes, heard, splitVars, stitchVars,
                   splitHist, asked, stitchHist>>

\* split_file, lines 396-401: the cleanup.  `dirname` is not a name of the
\* program, so the nested branch raises NameError before it deletes
Cleanup ==
    IF nest THEN [fs |-> fs, dirs |-> dirs, exc |-> "NameError"]
    ELSE [fs |-> DeletedFiles(Range(section_paths)),
          dirs |-> DeletedDirs(Range(section_paths)), exc |-> exc]

SplitExcept ==
    /\ pc = "except"
    /\ fs' = Cleanup.fs
    /\ dirs' = Cleanup.dirs
    /\ exc' = Cleanup.exc
    /\ pc' = "split_raised"
    /\ UNCHANGED <<headerVars, cfgVars, askVars, splitVars, stitchVars, splitHist, asked,
                   stitchHist>>

\* split_file, lines 403-404
SplitAfter ==
    /\ pc = "after"
    /\ fs' = IF delete_original THEN DeletedFiles({InPath}) ELSE fs
    /\ dirs' = IF delete_original THEN DeletedDirs({InPath}) ELSE dirs
    /\ pc' = "split_done"
    /\ UNCHANGED <<headerVars, cfgVars, askVars, exc, splitVars, stitchVars, splitHist,
                   asked, stitchHist>>


(***************************************************************************)
(* stitch_files.  `stitches` is the dict filename -> Stitch in insertion   *)
(* order: a sequence of records [filename, sections, count, comp], where   *)
(* sections is the dict index -> path.  The candidates are given as file   *)
(* paths (no directory arguments).                                         *)
(***************************************************************************)
\* unique_paths
RECURSIVE unique_paths(_)
unique_paths(ps) ==
    IF ps = <<>> THEN <<>>
    ELSE LET front == unique_paths(SubSeq(ps, 1, Len(ps) - 1))
             p == ps[Len(ps)]
         IN  IF p \in Range(front) THEN front ELSE Append(front, p)

\* the position of filename in stitches, 0 if it is not a key
Lookup(sts, filename) ==
    IF \E k \in DOMAIN sts : sts[k].filename = filename
    THEN CHOOSE k \in DOMAIN sts : sts[k].filename = filename
    ELSE 0

\* Registered with the count taken from the LAST section scanned last
RegisteredLastWins(sts, h, path) ==
    LET k == Lookup(sts, h.name) IN
    IF k # 0 /\ h.comp # sts[k].comp
    THEN [stitches |-> sts, raised |-> "inconsistent section compression"]
    ELSE IF k # 0 /\ h.index \in DOMAIN sts[k].sections
    THEN [stitches |-> sts, raised |-> "duplicate section file"]
    ELSE LET added ==
                 IF k # 0
                 THEN [sts EXCEPT ![k].sections = WithFile(@, h.index, path)]
                 ELSE Append(sts, [filename |-> h.name,
                                   sections |-> WithFile(<<>>, h.index, path),
                                   count |-> 0,
                                   comp |-> h.comp])
             kk == IF k # 0 THEN k ELSE Len(added)
         IN  [stitches |->
                  IF h.last
                  THEN [added EXCEPT ![kk].count = h.index + 1]
                  ELSE added,
              raised |-> ""]

\* Registered without the check of the compression flag
RegisteredAnyCompression(sts, h, path) ==
    LET k == Lookup(sts, h.name) IN
    IF k # 0 /\ h.index \in DOMAIN sts[k].sections
    THEN [stitches |-> sts, raised |-> "duplicate section file"]
    ELSE LET added ==
                 IF k # 0
                 THEN [sts EXCEPT ![k].sections = WithFile(@, h.index, path)]
                 ELSE Append(sts, [filename |-> h.name,
                                   sections |-> WithFile(<<>>, h.index, path),
                                   count |-> 0,
                                   comp |-> h.comp])
             kk == IF k # 0 THEN k ELSE Len(added)
             count == added[kk].count
         IN  [stitches |->
                  IF h.last
                  THEN [added EXCEPT ![kk].count =
                            IF count = 0 THEN h.index + 1
                            ELSE Min(count, h.index + 1)]
                  ELSE added,
              raised |-> ""]

\* Registered with a second file for an index put in place of the first
RegisteredOverwriting(sts, h, path) ==
    LET k == Lookup(sts, h.name) IN
    IF k # 0 /\ h.comp # sts[k].comp
    THEN [stitches |-> sts, raised |-> "inconsistent section compression"]
    ELSE LET added ==
                 IF k # 0
                 THEN [sts EXCEPT ![k].sections = WithFile(@, h.index, path)]
                 ELSE Append(sts, [filename |-> h.name,
                                   sections |-> WithFile(<<>>, h.index, path),
                                   count |-> 0,
                                   comp |-> h.comp])
             kk == IF k # 0 THEN k ELSE Len(added)
             count == added[kk].count
         IN  [stitches |->
                  IF h.last
                  THEN [added EXCEPT ![kk].count =
                            IF count = 0 THEN h.index + 1
                            ELSE Min(count, h.index + 1)]
                  ELSE added,
              raised |-> ""]

\* stitch_files.register, lines 466-486, for a header that was read
Registered(sts, h, path) ==
    LET k == Lookup(sts, h.name) IN
    IF k # 0 /\ h.comp # sts[k].comp
    THEN [stitches |-> sts, raised |-> "inconsistent section compression"]
    ELSE IF k # 0 /\ h.index \in DOMAIN sts[k].sections
    THEN [stitches |-> sts, raised |-> "duplicate section file"]
    ELSE LET added ==
                 IF k # 0
                 THEN [sts EXCEPT ![k].sections = WithFile(@, h.index, path)]
                 ELSE Append(sts, [filename |-> h.name,
                                   sections |-> WithFile(<<>>, h.index, path),
                                   count |-> 0,
                                   comp |-> h.comp])
             kk == IF k # 0 THEN k ELSE Len(added)
             count == added[kk].count
         IN  [stitches |->
                  IF h.last
                  THEN [added EXCEPT ![kk].count =
                            IF count = 0 THEN h.index + 1
                            ELSE Min(count, h.index + 1)]
                  ELSE added,
              raised |-> ""]

\* stitch_files.register, lines 461-487: the registry after one candidate,
\* and the exception the try block caught ("" if none)
register(sts, path, buf) ==
    LET r == HeaderRead(buf) IN
    IF r.ok THEN Registered(sts, r.h, path)
    ELSE [stitches |-> sts, raised |-> r.err]

\* Extra with the section at index count taken for a needed one
ExtraBeyond(st) == {st.sections[i] : i \in {j \in DOMAIN st.sections : j > st.count}}

\* stitch_files.check, lines 493-494
Extra(st) == {st.sections[i] : i \in {j \in DOMAIN st.sections : j >= st.count}}

\* Missing without the search for gaps
MissingNoGaps(st) == st.count = 0

\* stitch_files.check, lines 497-498
Missing(st) ==
    st.count = 0 \/ \E i \in 0..(st.count - 1) : i \notin DOMAIN st.sections

\* Trimmed with the unneeded sections left in the mapping
Untrimmed(st) == st

\* stitch_files.check, lines 509-511
Trimmed(st) ==
    [st EXCEPT !.sections =
         [i \in {j \in DOMAIN st.sections : j < st.count} |-> st.sections[i]]]

\* Unchunk with a decompressor made anew for every section
RECURSIVE UnchunkFresh(_, _, _)
UnchunkFresh(d, payload, decompress) ==
    IF payload = <<>> THEN [d |-> d, out |-> <<>>]
    ELSE LET chunk == Take(payload, CHUNK)
             r == IF decompress THEN Decompress(decompressobj, chunk)
                  ELSE [d |-> d, out |-> chunk]
             rest == UnchunkFresh(r.d, Drop(payload, CHUNK), decompress)
         IN  [d |-> rest.d, out |-> r.out \o rest.out]

\* dechunkify, lines 309-316: the bytes one section adds to the output,
\* read CHUNK bytes at a time
RECURSIVE Unchunk(_, _, _)
Unchunk(d, payload, decompress) ==
    IF payload = <<>> THEN [d |-> d, out |-> <<>>]
    ELSE LET chunk == Take(payload, CHUNK)
             r == IF decompress THEN Decompress(d, chunk)
                  ELSE [d |-> d, out |-> chunk]
             rest == Unchunk(r.d, Drop(payload, CHUNK), decompress)
         IN  [d |-> rest.d, out |-> r.out \o rest.out]

\* stitch_files.unpack, lines 419-427, for every path of the loop of line
\* 441: a path that does not exist is asked about (replies[k] is what the
\* user types at the prompt for paths[k]), any other path is collected
RECURSIVE unpack(_, _, _)
unpack(ps, replies, k) ==
    IF k = 0 THEN [allpaths |-> <<>>, ctx |-> NO, asked |-> <<>>,
                   raised |-> FALSE]
    ELSE LET before == unpack(ps, replies, k - 1)
             path == ps[k]
             reply == IF always_yes \/ before.ctx = YES THEN "auto"
                      ELSE replies[k]
         IN  IF before.raised THEN before
             ELSE IF path \in DOMAIN fs \/ path \in dirs
             THEN [before EXCEPT !.allpaths = Append(@, path)]
             ELSE [allpaths |-> before.allpaths,
                   ctx |-> CtxAfter(before.ctx, reply),
                   asked |-> <<[q |-> "ignore", r |-> reply,
                                ctx |-> before.ctx]>>,
                   raised |-> ~Said(reply)]

\* stitch_files, lines 407-446 and the entry of the ask context of line 516:
\* the call, the paths unpacked inside the first ask context, unique_paths
StitchEnter ==
    /\ pc = "stitch"
    /\ keep_sections' \in BOOLEAN
    /\ \E replies \in [{k \in DOMAIN paths : paths[k] \notin DOMAIN fs
                                            /\ paths[k] \notin dirs}
                       -> {"y", "n", "a"}] :
         LET r == unpack(paths, replies, Len(paths)) IN
         IF ask_ctx # NONE
         THEN /\ pc' = "stitch_raised" /\ exc' = "Exception"
              /\ UNCHANGED <<ask_ctx, heard, asked, allpaths, paths>>
         ELSE /\ allpaths' = r.allpaths
              /\ asked' = r.asked
              /\ heard' = (heard \/ r.ctx = YES)
              /\ IF r.raised
                 THEN /\ pc' = "stitch_raised" /\ exc' = "StitchError"
                      /\ ask_ctx' = NONE
                      /\ paths' = paths
                 ELSE /\ pc' = "register" /\ exc' = exc
                      /\ ask_ctx' = NO
                      /\ paths' = unique_paths(r.allpaths)
    /\ stitches' = <<>>
    /\ to_delete' = {}
    /\ scan' = 1
    /\ UNCHANGED <<headerVars, fs, dirs, size, compress, nest, delete_original, CHUNK,
                   always_yes, splitVars, st_index, decompressor, splitHist,
                   stitchHist>>

\* stitch_files, lines 518-520, for one candidate: open_for_read and register
Register ==
    /\ pc = "register"
    /\ IF scan > Len(paths)
       THEN /\ scan' = 1
            /\ pc' = "check"
            /\ UNCHANGED <<stitches, ask_ctx, heard, exc, asked, seen>>
       ELSE LET path == paths[scan]
                there == path \in DOMAIN fs
                r == IF there THEN register(stitches, path,
                                            FileRead(fs[path], 0, SIZE))
                     ELSE [stitches |-> stitches, raised |-> "no file"]
                query == r.raised # ""
            IN  \E reply \in IF query THEN Replies(ask_ctx, always_yes)
                             ELSE {""} :
                  /\ asked' = IF query
                              THEN <<Prompt(IF there THEN "bad section"
                                            ELSE "ignore", reply)>>
                              ELSE asked
                  /\ seen' = Append(seen,
                               [path |-> path, raised |-> r.raised,
                                hdr |-> IF there
                                        THEN HeaderRead(
                                               FileRead(fs[path], 0, SIZE))
                                        ELSE [ok |-> FALSE, err |-> "no file"]])
                  /\ stitches' = r.stitches
                  /\ heard' = (heard \/ reply = "a")
                  /\ IF query /\ ~Said(reply)
                     THEN /\ pc' = "stitch_raised" /\ exc' = "StitchError"
                          /\ ask_ctx' = NONE
                          /\ scan' = scan
                     ELSE /\ scan' = scan + 1
                          /\ ask_ctx' = CtxAfter(ask_ctx, reply)
                          /\ UNCHANGED <<pc, exc>>
    /\ UNCHANGED <<headerVars, fs, dirs, cfgVars, always_yes, splitVars, paths, allpaths,
                   to_delete, st_index, decompressor, splitHist, checked,
                   opened, stitched, vanished, reads>>

\* stitch_files, lines 523-528, for one group: check; after the last group
\* the groups to delete are dropped and the ask context is left
Check ==
    /\ pc = "check"
    /\ IF scan > Len(stitches)
       THEN /\ stitches' = SelectSeq(stitches,
                               LAMBDA st : st.filename \notin to_delete)
            /\ scan' = 1
            /\ pc' = "next"
            /\ ask_ctx' = NONE
            /\ asked' = <<>>
            /\ heard' = heard
            /\ UNCHANGED <<to_delete, exc, checked>>
       ELSE LET st == stitches[scan]
                extra == Extra(st)
                missing == Missing(st)
                query == missing \/ extra # {}
            IN  \E reply \in IF query THEN Replies(ask_ctx, always_yes)
                             ELSE {""} :
                  /\ asked' = IF query
                              THEN <<Prompt(IF missing THEN "missing"
                                            ELSE "unneeded", reply)>>
                              ELSE asked
                  /\ heard' = (heard \/ reply = "a")
                  /\ checked' = Append(checked,
                                  [filename |-> st.filename, extra |-> extra,
                                   missing |-> missing])
                  /\ IF query /\ ~Said(reply)
                     THEN /\ pc' = "stitch_raised" /\ exc' = "StitchError"
                          /\ ask_ctx' = NONE
                          /\ UNCHANGED <<stitches, to_delete, scan>>
                     ELSE /\ stitches' = IF ~missing /\ extra # {}
                                         THEN [stitches EXCEPT
                                                 ![scan] = Trimmed(st)]
                                         ELSE stitches
                          /\ to_delete' = IF missing
                                          THEN to_delete \cup {st.filename}
                                          ELSE to_delete
                          /\ scan' = scan + 1
                          /\ ask_ctx' = CtxAfter(ask_ctx, reply)
                          /\ UNCHANGED <<pc, exc>>
    /\ UNCHANGED <<headerVars, fs, dirs, cfgVars, always_yes, splitVars, paths, allpaths,
                   st_index, decompressor, splitHist, seen, opened, stitched,
                   vanished, reads>>


\* stitch_files, lines 534-546: the next group and open_for_write(filename)
NextGroup ==
    /\ pc = "next"
    /\ IF scan > Len(stitches)
       THEN /\ pc' = "stitch_done"
            /\ UNCHANGED <<fs, dirs, exc, asked, heard, opened, st_index,
                           decompressor>>
       ELSE LET filename == stitches[scan].filename
                out == OutPath(filename)
                query == out \in DOMAIN fs \/ out \in dirs
            IN  \E reply \in IF query THEN Replies(ask_ctx, always_yes)
                             ELSE {""} :
                  /\ asked' = IF query
                              THEN <<Prompt("overwrite", reply)>>
                              ELSE asked
                  /\ IF query /\ ~Said(reply)
                     THEN /\ pc' = "stitch_raised" /\ exc' = "StitchError"
                          /\ UNCHANGED <<fs, dirs, opened>>
                     ELSE /\ fs' = WithFile(DeletedFiles({out}), out, <<>>)
                          /\ dirs' = DeletedDirs({out})
                          /\ opened' = opened \cup {filename}
                          /\ pc' = "section"
                          /\ exc' = exc
                  /\ heard' = (heard \/ reply = "a")
                  /\ st_index' = 0
                  /\ decompressor' = decompressobj
    /\ UNCHANGED <<headerVars, cfgVars, ask_ctx, always_yes, splitVars, paths, allpaths, stitches,
                   to_delete, scan, splitHist, seen, checked, stitched,
                   vanished, reads>>

\* Abandoned without the deletion of the output file
AbandonedKept(files, out) == files

\* stitch_files, lines 549-553: what the handler leaves of the output file
Abandoned(files, out) == Without(files, {out})

\* Unavailable with the failed group skipped and the loop continued
UnavailableSkipped == [pc |-> "next", scan |-> scan + 1, exc |-> exc]

\* stitch_files, line 553: the exception leaves stitch_files, the loop over
\* the groups of line 534 is not continued
Unavailable == [pc |-> "stitch_raised", scan |-> scan, exc |-> "StitchError"]

\* dechunkify, lines 304-319, for one call of get_path (lines 537-544):
\* the next section is appended to the output, or, after the last one, the
\* output is finished and (lines 555-556) the sections are deleted
Section ==
    /\ pc = "section"
    /\ LET st == stitches[scan]
           out == OutPath(st.filename)
       IN  IF st_index = st.count
           THEN LET done == WithFile(fs, out,
                              fs[out] \o (IF st.comp
                                          THEN DecompressFlush(decompressor)
                                          ELSE <<>>))
                    paths_ == {st.sections[i] : i \in DOMAIN st.sections}
                IN  /\ fs' = IF keep_sections THEN done
                             ELSE Without(done, paths_ \cap DOMAIN done)
                    /\ dirs' = IF keep_sections THEN dirs
                               ELSE DeletedDirs(paths_)
                    /\ stitched' = Append(stitched, st.filename)
                    /\ scan' = scan + 1
                    /\ pc' = "next"
                    /\ UNCHANGED <<exc, st_index, decompressor, reads>>
           ELSE LET path == st.sections[st_index] IN
                /\ st_index' = st_index + 1
                /\ IF path \in DOMAIN fs
                   THEN LET r == Unchunk(decompressor, Drop(fs[path], SIZE),
                                         st.comp)
                        IN  /\ fs' = WithFile(fs, out, fs[out] \o r.out)
                            /\ decompressor' = r.d
                            /\ reads' = Append(reads,
                                           [filename |-> st.filename,
                                            path |-> path])
                            /\ UNCHANGED <<pc, exc, scan>>
                   ELSE /\ fs' = Abandoned(fs, out)
                        /\ pc' = Unavailable.pc
                        /\ exc' = Unavailable.exc
                        /\ scan' = Unavailable.scan
                        /\ UNCHANGED <<decompressor, reads>>
                /\ UNCHANGED <<dirs, stitched>>
    /\ UNCHANGED <<headerVars, cfgVars, askVars, splitVars, paths, allpaths, stitches,
                   to_delete, splitHist, asked, seen, checked, opened,
                   vanished>>

\* the environment: the section the stitcher is about to open is deleted, or
\* replaced by a directory, after validation
Vanish ==
    /\ pc = "section"
    /\ vanished = {}
    /\ LET st == stitches[scan] IN
       \E how \in {"unlink", "mkdir"} :
         /\ st_index < st.count
         /\ st.sections[st_index] \in DOMAIN fs
         /\ fs' = Without(fs, {st.sections[st_index]})
         /\ dirs' = IF how = "mkdir" THEN dirs \cup {st.sections[st_index]}
                    ELSE dirs
         /\ vanished' = {st.sections[st_index]}
    /\ UNCHANGED <<headerVars, cfgVars, askVars, pc, exc, splitVars, stitchVars,
                   splitHist, asked, seen, checked, opened, stitched,
                   reads>>

(***************************************************************************)
(* The runs.  Spec: one file is split, then the sections it produced are   *)
(* stitched.  SpecStitch: stitch_files is run on arbitrary candidates.     *)
(***************************************************************************)
Reverse(s) == [i \in 1..Len(s) |-> s[Len(s) + 1 - i]]

\* a file that is no section file
Junk == <<7>>

\* what is on disk before the split: the input (a file, nothing or a
\* directory) and, at the place of the first section, nothing, a file that is
\* no section, or an old section of the same input (flat) or an empty
\* section directory (nested)
Disk(kind, B, stale, nested) ==
    [files |->
        LET input == IF kind = "file" THEN WithFile(<<>>, InPath, B) ELSE <<>>
            first == nameof(nested, FileName, 0)
        IN  IF stale = "junk" THEN WithFile(input, first, Junk)
            ELSE IF stale = "old" /\ ~nested
            THEN WithFile(input, first,
                          HeaderWrite(Header(FileName, 0, FALSE, TRUE)))
            ELSE input,
     dirs |-> (IF kind = "dir" THEN {InPath} ELSE {})
              \cup (IF nested /\ stale # "none" THEN {DirPath(FileName)}
                    ELSE {})]

IdleSplit ==
    /\ index = 0
    /\ section_paths = <<>>
    /\ data = <<>>
    /\ compressor = compressobj
    /\ pos = 0
    /\ calls = <<>>
    /\ written = {}

IdleStitch ==
    /\ allpaths = <<>>
    /\ stitches = <<>>
    /\ to_delete = {}
    /\ scan = 1
    /\ st_index = 0
    /\ decompressor = decompressobj
    /\ seen = <<>>
    /\ checked = <<>>
    /\ opened = {}
    /\ stitched = <<>>
    /\ vanished = {}
    /\ reads = <<>>

IdleHeader ==
    /\ hdr_in = Header(<<>>, 0, FALSE, FALSE)
    /\ hdr_buf = <<>>
    /\ hdr_out = [ok |-> FALSE, err |-> ""]

Init ==
    /\ size \in (SIZE + 1)..(SIZE + MaxPayload)
    /\ compress \in BOOLEAN
    /\ nest \in BOOLEAN
    /\ delete_original \in BOOLEAN
    /\ keep_sections = FALSE
    /\ CHUNK \in 1..MaxChunk
    /\ \E kind \in {"file", "missing", "dir"}, stale \in {"none", "junk", "old"},
          B \in SeqsUpTo(InputByte, MaxLen) :
         /\ kind # "file" => B = <<>>
         /\ original = B
         /\ fs = Disk(kind, B, stale, nest).files
         /\ dirs = Disk(kind, B, stale, nest).dirs
    /\ ask_ctx = NONE
    /\ always_yes = FALSE
    /\ heard = FALSE
    /\ pc = "split"
    /\ exc = ""
    /\ asked = <<>>
    /\ paths = <<>>
    /\ IdleSplit
    /\ IdleStitch
    /\ IdleHeader

\* a second run of the program: the sections the split produced are handed
\* to stitch_files, in the order they were written or in the opposite order
StartStitch ==
    /\ pc = "split_done"
    /\ section_paths # <<>>
    /\ paths' \in {section_paths, Reverse(section_paths)}
    /\ pc' = "stitch"
    /\ asked' = <<>>
    /\ index' = 0
    /\ section_paths' = <<>>
    /\ data' = <<>>
    /\ compressor' = compressobj
    /\ pos' = 0
    /\ calls' = <<>>
    /\ written' = {}
    /\ UNCHANGED <<headerVars, fs, dirs, cfgVars, askVars, exc, allpaths, stitches,
                   to_delete, scan, st_index, decompressor, original,
                   stitchHist>>

NextStitch ==
    \/ StitchEnter
    \/ Register
    \/ Check
    \/ NextGroup
    \/ Section
    \/ Vanish

Next ==
    \/ SplitEnter
    \/ SplitOpen
    \/ ChunkRead
    \/ ProcessBlock
    \/ Interrupt
    \/ SplitExcept
    \/ SplitAfter
    \/ StartStitch
    \/ NextStitch

Spec == Init /\ [][Next]_vars


\* the payload of the candidate section with index i: one (count, value)
\* pair of a compressed stream, two bytes of an uncompressed one
CandPayload(i) == <<1, i>>

\* candidates with a header Header.read accepts: sections of FileName with any
\* index, flags and compression, and the only section of OtherName
ValidCands ==
    {HeaderWrite(Header(FileName, i, c, l)) \o CandPayload(i) :
        i \in 0..MaxIndex, c \in BOOLEAN, l \in BOOLEAN}
    \cup {HeaderWrite(Header(OtherName, 0, FALSE, TRUE)) \o CandPayload(0)}

\* candidates Header.read rejects: a file shorter than a header, a wrong
\* magic number, an undefined flag bit, a name that is not UTF-8
InvalidCands ==
    {Take(HeaderWrite(Header(FileName, 0, FALSE, TRUE)), SIZE - 1),
     [HeaderWrite(Header(FileName, 0, FALSE, TRUE)) EXCEPT ![1] = 0],
     [HeaderWrite(Header(FileName, 0, FALSE, TRUE)) EXCEPT ![4] = 5],
     [HeaderWrite(Header(FileName, 0, FALSE, TRUE)) EXCEPT ![9] = 255]}

\* a whole file as one section that lies where stitch_files puts its output:
\* the candidates are given as paths (lines 423-425 take any file), and the
\* output goes to the name in the header (lines 463 and 546)
\* a whole one-section file that lies at the path its header names: the
\* output path Path(header.name) of its group is the section itself
OwnOutput == HeaderWrite(Header(FileName, 0, FALSE, TRUE)) \o CandPayload(0)

InitStitch ==
    /\ size = SIZE + 1
    /\ compress = FALSE
    /\ nest = FALSE
    /\ delete_original = FALSE
    /\ keep_sections = FALSE
    /\ CHUNK = 1
    /\ \E content \in [1..MaxCand -> ValidCands \cup InvalidCands],
          first \in {CandPath(1), OutPath(FileName)} :
         /\ first = OutPath(FileName) => content[1] = OwnOutput
         /\ paths = [k \in 1..MaxCand |-> IF k = 1 THEN first ELSE CandPath(k)]
         /\ fs = [p \in Range(paths) |->
                     IF p = first THEN content[1] ELSE content[p[3]]]
    /\ dirs = {}
    /\ original = <<>>
    /\ ask_ctx = NONE
    /\ always_yes = FALSE
    /\ heard = FALSE
    /\ pc = "stitch"
    /\ exc = ""
    /\ asked = <<>>
    /\ IdleSplit
    /\ IdleStitch
    /\ IdleHeader

SpecStitch == InitStitch /\ [][NextStitch]_vars

(***************************************************************************)
(* SpecHeader: a Header is constructed, written, and the bytes, as they    *)
(* are or damaged, are handed to Header.read.                              *)
(***************************************************************************)
\* the characters of the names: one of each encoded length, 1 to 4 bytes
NameChar == {97, 233, 8364, 128512}

\* n times the character x
Long(n) == [i \in 1..n |-> 120]

\* file names: short ones, and ones whose encoding ends about the 120th byte
Names ==
    {Long(n) \o t : n \in {0, NAMESZ - 1},
                    t \in SeqsUpTo(NameChar, MaxTail)}

\* indices: 0, one with four different bytes, the largest the integers of the
\* model checker hold (2^31 - 1), and one that is no unsigned number
Indices == {-1, 0, 16909060, 2147483647}

\* buffers that are no written header: a byte less, a byte more, nothing, or
\* one byte of the magic number, the flags, the index or the name changed
Damaged(buf) ==
    {Take(buf, SIZE - 1), buf \o <<0>>, <<>>}
    \cup {[buf EXCEPT ![i] = v] : i \in {1, 3, 4, 5, 9}, v \in {0, 4, 255}}
    \cup {[buf EXCEPT ![8] = 127]}

InitHeader ==
    /\ size = SIZE + 1
    /\ compress = FALSE
    /\ nest = FALSE
    /\ delete_original = FALSE
    /\ keep_sections = FALSE
    /\ CHUNK = 1
    /\ fs = <<>>
    /\ dirs = {}
    /\ paths = <<>>
    /\ original = <<>>
    /\ ask_ctx = NONE
    /\ always_yes = FALSE
    /\ heard = FALSE
    /\ pc = "header"
    /\ exc = ""
    /\ asked = <<>>
    /\ IdleSplit
    /\ IdleStitch
    /\ hdr_in \in {Header(n, i, c, l) : n \in Names, i \in Indices,
                                        c \in BOOLEAN, l \in BOOLEAN}
    /\ hdr_buf = <<>>
    /\ hdr_out = [ok |-> FALSE, err |-> ""]

\* Header.__post_init__, lines 221-223
NewHeader ==
    /\ pc = "header"
    /\ IF 0 <= hdr_in.index /\ hdr_in.index \div 65536 < 65536
       THEN pc' = "header_made" /\ exc' = exc
       ELSE pc' = "header_raised" /\ exc' = "ValueError"
    /\ UNCHANGED <<fs, dirs, cfgVars, askVars, splitVars, stitchVars,
                   splitHist, asked, stitchHist, headerVars>>

\* Header.write
WriteHeader ==
    /\ pc = "header_made"
    /\ hdr_buf' = HeaderWrite(hdr_in)
    /\ pc' = "header_written"
    /\ UNCHANGED <<fs, dirs, cfgVars, askVars, exc, splitVars, stitchVars,
                   splitHist, asked, stitchHist, hdr_in, hdr_out>>

\* the bytes handed to Header.read are not those that were written
Damage ==
    /\ pc = "header_written"
    /\ hdr_buf' \in Damaged(hdr_buf)
    /\ pc' = "header_damaged"
    /\ UNCHANGED <<fs, dirs, cfgVars, askVars, exc, splitVars, stitchVars,
                   splitHist, asked, stitchHist, hdr_in, hdr_out>>

\* Header.read
ReadHeader ==
    /\ pc \in {"header_written", "header_damaged"}
    /\ hdr_out' = HeaderRead(hdr_buf)
    /\ pc' = IF pc = "header_written" THEN "header_read" ELSE "damaged_read"
    /\ exc' = IF hdr_out'.ok THEN exc ELSE "ValueError"
    /\ UNCHANGED <<fs, dirs, cfgVars, askVars, splitVars, stitchVars,
                   splitHist, asked, stitchHist, hdr_in, hdr_buf>>

NextHeader == NewHeader \/ WriteHeader \/ Damage \/ ReadHeader

SpecHeader == InitHeader /\ [][NextHeader]_vars


(***************************************************************************)
(* Properties.                                                             *)
(***************************************************************************)
\* the full transform of an input: the input itself, or the output of one
\* compression session over the whole input, with its final flush
Transform(B) ==
    IF compress
    THEN LET r == Compress(compressobj, B) IN r.out \o CompressFlush(r.c)
    ELSE B

RECURSIVE Payloads(_)
Payloads(cs) ==
    IF cs = <<>> THEN <<>> ELSE Head(cs).chunk \o Payloads(Tail(cs))

\* chunkify has returned and its calls of process are on record
Chunked == pc \in {"after", "split_done"} /\ calls # <<>>

\* C1: when the sections a split produced are stitched, and none of them
\* vanished meanwhile, the output file holds the bytes of the input
RoundTrip ==
    (pc = "stitch_done" /\ vanished = {})
        => /\ OutPath(FileName) \in DOMAIN fs
           /\ fs[OutPath(FileName)] = original

RoundTripWitness ==
    /\ pc = "stitch_done" /\ vanished = {}
    /\ compress /\ Len(original) = MaxLen /\ Len(paths) >= 3
    /\ fs[OutPath(FileName)] = original

\* C2: when a split has failed or was interrupted, no section file it wrote
\* is left on disk, in the flat and in the nested layout
NoSectionLeft == pc = "split_raised" => written \cap DOMAIN fs = {}

\* C6: when a section is missing, or no regular file, as the stitcher reaches
\* it, the stitch fails and the output file of the group is not on disk
NoPartialOutput ==
    (pc = "stitch_raised" /\ vanished # {})
        => /\ exc = "StitchError"
           /\ OutPath(stitches[scan].filename) \notin DOMAIN fs

NoPartialOutputWitness ==
    /\ pc = "stitch_raised" /\ vanished # {}
    /\ st_index >= 2
    /\ OutPath(stitches[scan].filename) \notin DOMAIN fs

\* C9: every payload but the final one has exactly max_size bytes, no payload
\* has more, and a payload is empty only if the transformed stream is empty
PayloadSizes ==
    \A i \in DOMAIN calls :
        /\ i < Len(calls) => Len(calls[i].chunk) = max_size
        /\ Len(calls[i].chunk) <= max_size
        /\ calls[i].chunk = <<>> => Transform(original) = <<>>

PayloadSizesWitness ==
    /\ Chunked
    /\ Len(calls) >= 3
    /\ Len(calls[Len(calls)].chunk) < max_size
    /\ max_size > 1

\* C10: the payloads, concatenated in call order, are the full transform of
\* the input
PayloadsAreTransform == Chunked => Payloads(calls) = Transform(original)

PayloadsAreTransformWitness ==
    /\ Chunked
    /\ compress /\ CHUNK < Len(original) /\ Len(calls) >= 2
    /\ Payloads(calls) = Transform(original)


(***************************************************************************)
(* Properties of the registry.                                             *)
(***************************************************************************)
\* the first 128 bytes of a candidate are a header: 128 bytes, the magic
\* number, no flag bit but LAST and COMPRESSED, a UTF-8 name
WellFormed(buf) ==
    /\ Len(buf) = 128
    /\ SubSeq(buf, 1, 3) = <<66, 82, 83>>
    /\ buf[4] \in 0..3
    /\ Utf8Decode(Rstrip(SubSeq(buf, 9, 128))).ok

\* the scanned candidates with a header, and those that were registered
SeenSections == {s \in Range(seen) : s.hdr.ok}
Accepted == {s \in Range(seen) : s.raised = ""}

\* the sections among S that carry the name n
Named(S, n) == {s \in S : s.hdr.h.name = n}

\* the count the LAST flags of the sections S ask for: the least index + 1,
\* 0 if none asserts LAST
EarliestLast(S) ==
    LET lasts == {s.hdr.h.index + 1 : s \in {t \in S : t.hdr.h.last}} IN
    IF lasts = {} THEN 0 ELSE CHOOSE c \in lasts : \A d \in lasts : c <= d

\* the group named n, as registered
Group(n) == stitches[Lookup(stitches, n)]

\* the registry after the candidates ps[1..k] were scanned in this order,
\* every prompt answered yes, with the conditions raised: per group, or per
\* path for a candidate without a header
RECURSIVE Scanned(_, _)
Scanned(ps, k) ==
    IF k = 0 THEN [stitches |-> <<>>, raised |-> {}]
    ELSE LET before == Scanned(ps, k - 1)
             buf == FileRead(fs[ps[k]], 0, SIZE)
             hdr == HeaderRead(buf)
             r == register(before.stitches, ps[k], buf)
         IN  [stitches |-> r.stitches,
              raised |-> before.raised \cup
                  (IF r.raised = "" THEN {}
                   ELSE {<<IF hdr.ok THEN hdr.h.name ELSE ps[k], r.raised>>})]

\* that registry after check has looked at every group
Validated(sc) ==
    LET all == Range(sc.stitches) IN
    [groups |-> {Trimmed(st) : st \in {g \in all : ~Missing(g)}},
     raised |-> sc.raised
                \cup {<<g.filename, "missing">> : g \in {h \in all : Missing(h)}}
                \cup {<<g.filename, "unneeded">> :
                         g \in {h \in all : ~Missing(h) /\ Extra(h) # {}}}]

\* the conditions the scan of this run has raised
RaisedByScan ==
    {<<IF s.hdr.ok THEN s.hdr.h.name ELSE s.path, s.raised>> :
        s \in {t \in Range(seen) : t.raised # ""}}

RaisedByCheck ==
    {<<c.filename, "missing">> : c \in {d \in Range(checked) : d.missing}}
    \cup {<<c.filename, "unneeded">> :
             c \in {d \in Range(checked) : ~d.missing /\ d.extra # {}}}

Orders(ps) == {q \in [DOMAIN ps -> Range(ps)] : Range(q) = Range(ps)}

\* every candidate was registered, check has not started
Scanning == pc = "check" /\ checked = <<>>
\* check has looked at every group, no stitch has started
ScanDone == pc = "next" /\ scan = 1

\* the result of this run's scan is the result of the scan in every order
SameInEveryOrder ==
    /\ Scanning =>
         \A q \in Orders(paths) :
             LET sc == Scanned(q, Len(q)) IN
             /\ Range(sc.stitches) = Range(stitches)
             /\ sc.raised = RaisedByScan
    /\ ScanDone =>
         \A q \in Orders(paths) :
             LET v == Validated(Scanned(q, Len(q))) IN
             /\ v.groups = Range(stitches)
             /\ v.raised = RaisedByScan \cup RaisedByCheck

\* no two candidates with a header and the same name have the same index or
\* different compression flags
ConflictFree ==
    \A a \in SeenSections, b \in SeenSections :
        (a.path # b.path /\ a.hdr.h.name = b.hdr.h.name)
            => /\ a.hdr.h.index # b.hdr.h.index
               /\ a.hdr.h.comp = b.hdr.h.comp

\* C3 as stated: for any candidates the result of the scan (the groups,
\* their mappings, counts and compression flags, the conditions raised) is
\* the same for every order the candidates are scanned in
ScanOrderIndependent == SameInEveryOrder

\* C3 as amended: the same, for candidates free of conflicts
ScanOrderIndependentNoConflict == ConflictFree => SameInEveryOrder

ScanOrderIndependentWitness ==
    /\ ScanDone /\ ConflictFree
    /\ \E a \in Accepted, b \in Accepted :
         /\ a.hdr.h.name = b.hdr.h.name
         /\ a.hdr.h.last /\ b.hdr.h.last
         /\ a.hdr.h.index < b.hdr.h.index
    /\ RaisedByCheck # {}

\* the paths check has reported as unneeded in the entry c: check reports
\* them only for a group without a missing section
Reported(c) == IF c.missing THEN {} ELSE c.extra

\* the paths reported as unneeded for the group named n
ListedExtra(n) ==
    UNION {Reported(c) : c \in {d \in Range(checked) : d.filename = n}}

\* the registered sections named n from the index on that the sections S ask
\* for as the count
Beyond(S, n) ==
    {s.path : s \in {t \in Named(Accepted, n) :
                        t.hdr.h.index >= EarliestLast(Named(S, n))}}

\* the count of every group is the count the sections S ask for
CountsFollow(S) ==
    pc = "check" =>
        \A k \in DOMAIN stitches :
            stitches[k].count = EarliestLast(Named(S, stitches[k].filename))

\* C4 as stated: the count of a group is the least index + 1 over all the
\* scanned sections of the group (those that carry its name) that assert LAST,
\* 0 if there is none; every section from index count on is reported as excess
CountIsEarliestLast ==
    /\ CountsFollow(SeenSections)
    /\ \A c \in Range(checked) : Reported(c) = Beyond(SeenSections, c.filename)

\* C4 as amended: the count of a group is the least index + 1 over the
\* sections registered in the group that assert LAST, 0 if there is none;
\* for a group without a missing section, every section from index count on
\* is reported as excess and leaves the mapping
CountIsEarliestAcceptedLast ==
    /\ CountsFollow(Accepted)
    /\ \A c \in Range(checked) :
           ~c.missing => c.extra = Beyond(Accepted, c.filename)
    /\ pc \in {"next", "section", "stitch_done"} =>
           \A k \in DOMAIN stitches :
               \A i \in DOMAIN stitches[k].sections : i < stitches[k].count

CountIsEarliestAcceptedLastWitness ==
    /\ pc = "check"
    /\ \E a \in Accepted, b \in Accepted :
         /\ a.hdr.h.name = b.hdr.h.name
         /\ a.hdr.h.last /\ b.hdr.h.last
         /\ a.hdr.h.index < b.hdr.h.index
         /\ \E k \in DOMAIN stitches :
                /\ stitches[k].filename = a.hdr.h.name
                /\ stitches[k].count = a.hdr.h.index + 1
         /\ b.path \in ListedExtra(a.hdr.h.name)

\* the sections registered under the name n do not make a complete group
Incomplete(n) ==
    LET count == EarliestLast(Named(Accepted, n)) IN
    count = 0 \/ \E i \in 0..(count - 1) :
                    \A s \in Named(Accepted, n) : s.hdr.h.index # i

\* C5: every group whose output file was opened has a count of at least 1
\* and a path for exactly the indices below the count; a group without a
\* count or with a gap is never stitched
StitchedAreComplete ==
    /\ \A n \in opened :
           /\ Group(n).count >= 1
           /\ DOMAIN Group(n).sections = 0..(Group(n).count - 1)
    /\ \A s \in Accepted : Incomplete(s.hdr.h.name) => s.hdr.h.name \notin opened

StitchedAreCompleteWitness ==
    /\ opened # {}
    /\ \E s \in Accepted : Incomplete(s.hdr.h.name)
    /\ \E n \in opened : Group(n).count >= 1

\* a section vanished and the stitcher has come to it
Failed == vanished # {} /\ pc # "section"

\* C7 as stated: when the stitch of a group has failed on a section that
\* vanished, every other validated group is stitched all the same
OthersStillStitched ==
    Failed => \A k \in DOMAIN stitches :
                  k # scan => stitches[k].filename \in Range(stitched)

\* C7 as amended: the failure ends stitch_files: the groups before the failed
\* one are stitched, the failed one and those after it are not
FailureEndsStitching ==
    Failed => /\ pc = "stitch_raised"
              /\ \A k \in DOMAIN stitches :
                     /\ stitches[k].filename \in Range(stitched) <=> k < scan
                     /\ k > scan => stitches[k].filename \notin opened

FailureEndsStitchingWitness ==
    /\ Failed /\ pc = "stitch_raised"
    /\ Len(stitches) = 2 /\ scan = 1
    /\ stitches[2].filename \notin opened

\* the scan has stopped at a candidate without a header
StoppedAtInvalid ==
    /\ pc = "stitch_raised"
    /\ asked # <<>> /\ asked[1].q = "bad section"
    /\ ~WellFormed(FileRead(fs[seen[Len(seen)].path], 0, 128))

\* no output file has been opened: the files are as the scan read them
NoOutputYet == stitched = <<>> /\ pc # "section"

\* the candidates on disk without a header are in no group
InvalidExcluded ==
    \A s \in Range(seen) :
        (/\ NoOutputYet
         /\ s.path \in DOMAIN fs
         /\ ~WellFormed(FileRead(fs[s.path], 0, 128)))
            => \A k \in DOMAIN stitches :
                   \A i \in DOMAIN stitches[k].sections :
                       stitches[k].sections[i] # s.path

\* C8 as stated: a candidate without a header is kept out of the groups and
\* never stops the scan, whatever the prompt is answered
InvalidNeverStopsScan == InvalidExcluded /\ ~StoppedAtInvalid

\* C8 as amended: a candidate without a header is kept out of the groups; it
\* stops the scan only when its prompt is answered no, and otherwise every
\* candidate is scanned
InvalidStopsScanOnlyOnNo ==
    /\ InvalidExcluded
    /\ StoppedAtInvalid => asked[1].r = "n"
    /\ pc \in {"check", "next", "section", "stitch_done"}
           => Len(seen) = Len(paths)

InvalidStopsScanOnlyOnNoWitness ==
    /\ pc = "check"
    /\ Len(seen) = 2
    /\ ~WellFormed(FileRead(fs[seen[1].path], 0, 128))
    /\ seen[2].raised = ""
    /\ Len(stitches) = 1


(***************************************************************************)
(* Properties of chunkify and of the section files.                        *)
(***************************************************************************)
\* chunkify is running
InChunkify == pc \in {"read", "emit", "tail", "final"}

\* of the calls cs the final one has isLast and no other
FinalCallOnly(cs) ==
    /\ cs # <<>>
    /\ \A i \in DOMAIN cs : cs[i].last <=> i = Len(cs)

\* C11: no call follows a call with isLast, and when chunkify returns the
\* callback was called with isLast exactly once, in the final call
ExactlyOneFinalCall ==
    /\ [](\A i \in DOMAIN calls : calls[i].last => i = Len(calls))
    /\ [][(InChunkify /\ pc' = "after") => FinalCallOnly(calls')]_vars

ExactlyOneFinalCallWitness ==
    /\ pc = "after"
    /\ ~compress
    /\ Len(calls) >= 2
    /\ Len(original) = Len(calls) * max_size
    /\ CHUNK > 1
    /\ FinalCallOnly(calls)


\* C12: the calls of process are those of a split of the same input read
\* in any other chunk size: as many payloads, the same bytes in the same
\* order, the same isLast flags
ChunkSizeIndependent ==
    Chunked => \A n \in 1..MaxChunk :
                   chunkify(original, n, 0, compressobj, <<>>) = calls

ChunkSizeIndependentWitness ==
    /\ Chunked
    /\ compress
    /\ CHUNK = 1
    /\ Len(original) >= 3
    /\ Len(calls) >= 2
    /\ chunkify(original, 2, 0, compressobj, <<>>) = calls


(***************************************************************************)
(* Properties of dechunkify.                                               *)
(***************************************************************************)
\* the section files dechunkify has opened for the group named n, in order
ReadsOf(n) == SelectSeq(reads, LAMBDA r : r.filename = n)

\* the index in the header of the scanned candidate at path p
IndexOf(p) == (CHOOSE s \in SeenSections : s.path = p).hdr.h.index

\* the bytes after the first 128 of the files rs, one after the other
RECURSIVE PayloadStream(_)
PayloadStream(rs) ==
    IF rs = <<>> THEN <<>>
    ELSE PayloadStream(SubSeq(rs, 1, Len(rs) - 1))
         \o SubSeq(fs[rs[Len(rs)].path], 129, Len(fs[rs[Len(rs)].path]))

\* what one inverse transform makes of the whole stream, and its state after
Inverse(comp, stream) ==
    IF comp THEN Decompress(decompressobj, stream)
    ELSE [d |-> decompressobj, out |-> stream]

\* C13: the sections of a group are opened in the order of their indices
\* 0, 1, ..., each once, and all count of them when the group is stitched;
\* the output is what one inverse transform, kept across the sections, makes
\* of the bytes after the headers, with its flush at the end
SectionsInOrder ==
    /\ \A k \in DOMAIN stitches :
           LET rs == ReadsOf(stitches[k].filename) IN
           /\ \A i \in DOMAIN rs : IndexOf(rs[i].path) = i - 1
           /\ stitches[k].filename \in Range(stitched)
                  => Len(rs) = stitches[k].count
    /\ pc = "section" =>
           LET st == stitches[scan]
               rs == ReadsOf(st.filename)
               whole == Inverse(st.comp, PayloadStream(rs))
           IN  /\ Len(rs) = st_index
               /\ fs[OutPath(st.filename)] = whole.out
               /\ st.comp => decompressor = whole.d
    /\ (pc \in {"next", "stitch_done"} /\ keep_sections) =>
           \A k \in DOMAIN stitches :
               stitches[k].filename \in Range(stitched) =>
                   LET whole == Inverse(stitches[k].comp,
                                  PayloadStream(ReadsOf(stitches[k].filename)))
                   IN  fs[OutPath(stitches[k].filename)] =
                           whole.out \o (IF stitches[k].comp
                                         THEN DecompressFlush(whole.d)
                                         ELSE <<>>)

SectionsInOrderWitness ==
    /\ pc = "stitch_done"
    /\ keep_sections
    /\ compress
    /\ max_size = 1
    /\ Len(reads) >= 3
    /\ paths[1] # reads[1].path
    /\ fs[OutPath(FileName)] = original
    /\ Len(original) = MaxLen


(***************************************************************************)
(* Properties of the conditions the registry raises.                       *)
(***************************************************************************)
\* the header of the candidate at path p, read from the disk
HeaderAt(p) == HeaderRead(FileRead(fs[p], 0, SIZE))

\* the candidates p and q are sections of one name
SameName(p, q) ==
    /\ HeaderAt(p).ok /\ HeaderAt(q).ok
    /\ HeaderAt(p).h.name = HeaderAt(q).h.name

\* register has raised the condition what for a candidate named n
RaisedFor(n, what) ==
    \E s \in Named(SeenSections, n) : s.raised = what

\* C14: when two of the candidates are sections of one name with different
\* COMPRESSED flags, the scan, in whatever order, raises the
\* inconsistent-compression condition for a section of that name, and no
\* group maps a section whose flag is not the group's
InconsistentReported ==
    /\ Scanning =>
         \A p \in Range(paths), q \in Range(paths) :
             (SameName(p, q) /\ HeaderAt(p).h.comp # HeaderAt(q).h.comp)
                 => RaisedFor(HeaderAt(p).h.name,
                              "inconsistent section compression")
    /\ \A s \in Range(seen) :
           s.raised = "inconsistent section compression"
               => \E t \in Named(Accepted, s.hdr.h.name) :
                      t.hdr.h.comp # s.hdr.h.comp
    /\ \A s \in Accepted :
           \A k \in DOMAIN stitches :
               stitches[k].filename = s.hdr.h.name
                   => stitches[k].comp = s.hdr.h.comp

InconsistentReportedWitness ==
    /\ Scanning
    /\ Len(seen) = 2
    /\ SameName(paths[1], paths[2])
    /\ HeaderAt(paths[1]).h.comp /\ ~HeaderAt(paths[2]).h.comp
    /\ HeaderAt(paths[1]).h.index # HeaderAt(paths[2]).h.index
    /\ seen[2].raised = "inconsistent section compression"


\* the sections registered before the i-th candidate scanned that carry its
\* name and its index
EarlierSame(i) ==
    {j \in 1..(i - 1) :
        /\ seen[j].raised = ""
        /\ seen[j].hdr.h.name = seen[i].hdr.h.name
        /\ seen[j].hdr.h.index = seen[i].hdr.h.index}

\* the paths in the mappings of the groups
Mapped ==
    UNION {{stitches[k].sections[i] : i \in DOMAIN stitches[k].sections} :
               k \in DOMAIN stitches}

\* a section rejected as a duplicate is in no mapping and is never opened by
\* the stitcher, no two registered sections share a name and an index, and
\* after the answer no to its prompt nothing is stitched
DuplicateDropped ==
    /\ \A s \in Range(seen) :
           s.raised = "duplicate section file"
               => /\ s.path \notin Mapped
                  /\ \A r \in Range(reads) : r.path # s.path
    /\ \A a \in Accepted, b \in Accepted :
           (a.hdr.h.name = b.hdr.h.name /\ a.hdr.h.index = b.hdr.h.index)
               => a.path = b.path
    /\ (seen # <<>> /\ seen[Len(seen)].raised = "duplicate section file"
        /\ asked # <<>> /\ asked[1].q = "bad section" /\ asked[1].r = "n")
           => pc = "stitch_raised" /\ opened = {}

\* C15 as stated: a section whose index is already registered in its group
\* by another file raises the duplicate-section condition; it is dropped or
\* the group is not stitched; no index has two paths
DuplicateAlwaysReported ==
    /\ \A i \in DOMAIN seen :
           (seen[i].hdr.ok /\ EarlierSame(i) # {})
               => seen[i].raised = "duplicate section file"
    /\ DuplicateDropped

\* C15 as amended: the same for a section that carries the compression flag
\* of its group; with another flag it raises the inconsistent-compression
\* condition instead, and is dropped likewise
DuplicateReported ==
    /\ \A i \in DOMAIN seen :
           (seen[i].hdr.ok /\ EarlierSame(i) # {})
               => seen[i].raised =
                      IF \E j \in EarlierSame(i) :
                             seen[j].hdr.h.comp = seen[i].hdr.h.comp
                      THEN "duplicate section file"
                      ELSE "inconsistent section compression"
    /\ \A s \in Range(seen) :
           s.raised = "inconsistent section compression"
               => s.path \notin Mapped
    /\ DuplicateDropped

DuplicateReportedWitness ==
    /\ pc = "stitch_done"
    /\ Len(seen) = 2
    /\ seen[2].raised = "duplicate section file"
    /\ seen[1].hdr.h.name \in Range(stitched)
    /\ seen[1].path \in {r.path : r \in Range(reads)}


\* the registered sections named n with an index from the count on
Excess(n) == Beyond(Accepted, n)

\* the paths dechunkify has opened for the group named n
Opened(n) == {r.path : r \in Range(ReadsOf(n))}

\* C16: the sections with an index from the count on are never opened and
\* are in no mapping once check is done: the mapping of a group, and what
\* is opened for a stitched group, are the registered sections below the
\* count; a group without a missing section stays to be stitched whether
\* or not it has such sections, unless their prompt is answered no
ExcessNeverOpened ==
    /\ \A s \in Accepted : Opened(s.hdr.h.name) \cap Excess(s.hdr.h.name) = {}
    /\ pc \in {"next", "section", "stitch_done"} =>
           \A k \in DOMAIN stitches :
               LET n == stitches[k].filename
                   needed == {s.path : s \in Named(Accepted, n)} \ Excess(n)
               IN  /\ {stitches[k].sections[i] :
                          i \in DOMAIN stitches[k].sections} = needed
                   /\ n \in Range(stitched) => Opened(n) = needed
    /\ ScanDone =>
           \A c \in Range(checked) :
               ~c.missing => \E k \in DOMAIN stitches :
                                 stitches[k].filename = c.filename
    /\ (pc = "stitch_raised" /\ asked # <<>> /\ asked[1].q = "unneeded")
           => asked[1].r = "n"

ExcessNeverOpenedWitness ==
    /\ pc = "stitch_done"
    /\ \E c \in Range(checked) :
           /\ ~c.missing
           /\ c.extra # {}
           /\ c.extra = Excess(c.filename)
           /\ c.filename \in Range(stitched)
           /\ Opened(c.filename) # {}
           /\ c.extra \subseteq DOMAIN fs


(***************************************************************************)
(* Properties of Header.                                                   *)
(***************************************************************************)
\* the name cut to the characters whose encoding fits the 120 bytes the
\* header has for it
Truncated(name) ==
    LET fit == {k \in 0..Len(name) :
                   Len(Utf8Encode(SubSeq(name, 1, k))) <= 120}
    IN  SubSeq(name, 1, CHOOSE k \in fit : \A j \in fit : j <= k)

\* C17: a Header that was written is 128 bytes, and Header.read makes of
\* them the Header with the name truncated to the capacity and the same
\* index and flags
HeaderRoundTrip ==
    pc = "header_read" =>
        /\ Len(hdr_buf) = 128
        /\ hdr_out.ok
        /\ hdr_out.h = Header(Truncated(hdr_in.name), hdr_in.index,
                              hdr_in.comp, hdr_in.last)

\* C18: Header.read raises for a buffer that is not 128 bytes, does not
\* start with the magic number or has a flag bit other than the two set;
\* the index it returns is the little-endian number of bytes 4 to 7
HeaderRejects ==
    pc \in {"header_read", "damaged_read"} =>
        /\ Len(hdr_buf) # 128 => ~hdr_out.ok
        /\ Len(hdr_buf) = 128 =>
               /\ SubSeq(hdr_buf, 1, 3) # <<66, 82, 83>> => ~hdr_out.ok
               /\ hdr_buf[4] \notin 0..3 => ~hdr_out.ok
               /\ hdr_out.ok =>
                      hdr_out.h.index = hdr_buf[5] + hdr_buf[6] * 256
                                        + hdr_buf[7] * 65536
                                        + hdr_buf[8] * 16777216

HeaderRejectsWitness ==
    /\ pc = "damaged_read"
    /\ Len(hdr_buf) = 128
    /\ SubSeq(hdr_buf, 1, 3) = <<66, 82, 83>>
    /\ hdr_buf[4] = 4
    /\ ~hdr_out.ok
    /\ hdr_in.index = 16909060


(***************************************************************************)
(* Properties of split_file.                                               *)
(***************************************************************************)
\* the number of sections for a stream of L bytes and a capacity of S
Sections(L, S) == IF L = 0 THEN 1 ELSE (L + S - 1) \div S

\* the section files on disk
SectionFiles == {p \in DOMAIN fs : p[1] \in {"sec", "nsec"}}

\* C19: after a successful split the section files are the N files written,
\* N = max(1, ceil(L / S)) for the L bytes of the transformed input; the
\* i-th file written is at most S + 128 bytes and its header has the index
\* i - 1, the name of the input, the COMPRESSED flag of the split and the
\* LAST flag if and only if it is the N-th
SectionsWritten ==
    Chunked =>
        LET N == Sections(Len(Transform(original)), size - 128) IN
        /\ Len(section_paths) = N
        /\ Cardinality(Range(section_paths)) = N
        /\ SectionFiles = Range(section_paths)
        /\ written = Range(section_paths)
        /\ \A i \in 1..N :
               LET file == fs[section_paths[i]]
                   h == HeaderRead(SubSeq(file, 1, 128))
               IN  /\ Len(file) <= (size - 128) + 128
                   /\ h.ok
                   /\ h.h = Header(FileName, i - 1, compress, i = N)

SectionsWrittenWitness ==
    /\ Chunked
    /\ ~compress
    /\ size - 128 = 2
    /\ Len(original) = 3
    /\ Len(section_paths) = 2
    /\ Len(fs[section_paths[2]]) = 129


\* split_file is running
InSplit ==
    pc \in {"split", "open", "read", "emit", "tail", "final", "except", "after"}

\* something is at the input path
AtInPath(files, directories) == InPath \in DOMAIN files \/ InPath \in directories

\* C20: while split_file runs, what is at the input path is removed only
\* with delete_original set, after chunkify has returned with every section
\* written, and a file there keeps its bytes
InputUntouched ==
    [][InSplit =>
          /\ (AtInPath(fs, dirs) /\ ~AtInPath(fs', dirs'))
                 => /\ delete_original
                    /\ pc = "after"
                    /\ FinalCallOnly(calls)
                    /\ Range(section_paths) \subseteq DOMAIN fs
          /\ (InPath \in DOMAIN fs /\ InPath \in DOMAIN fs')
                 => fs'[InPath] = fs[InPath]]_vars


(***************************************************************************)
(* Properties of the deletion of sections.                                 *)
(***************************************************************************)
\* the candidate files that a step of stitch_files removes
Deleted == {p \in Range(paths) \cap DOMAIN fs : p \notin DOMAIN fs'}

\* the step finishes the stitch of the group named n: the output holds all
\* that the count sections of the group give, and the group is recorded
Completes(n) ==
    /\ pc = "section"
    /\ stitched' = Append(stitched, n)
    /\ Len(ReadsOf(n)) = EarliestLast(Named(Accepted, n))
    /\ OutPath(n) \in DOMAIN fs'
    /\ LET whole == Inverse(Group(n).comp, PayloadStream(ReadsOf(n))) IN
       fs'[OutPath(n)] = whole.out \o (IF Group(n).comp
                                       THEN DecompressFlush(whole.d)
                                       ELSE <<>>)

\* C21: a step of stitch_files removes candidate files only without
\* keep_sections, when it finishes the output of a group, which is then on
\* disk with all that the sections give, and then only the registered
\* sections of that group below its count
DeletesOnlyStitched ==
    [][(vanished' = vanished /\ Deleted # {}) =>
          /\ ~keep_sections
          /\ Completes(stitches[scan].filename)
          /\ Deleted \subseteq
                 {s.path : s \in Named(Accepted, stitches[scan].filename)}
                 \ Excess(stitches[scan].filename)]_vars


(***************************************************************************)
(* Properties of the compression flag of the stitched sections.            *)
(***************************************************************************)
\* the header the scan read at the path of the read r
ScannedAt(r) == {s \in Accepted : s.path = r.path}

\* the read r is of a section that the scan accepted under the name of the
\* group, with the COMPRESSED flag of the group
FlagOfGroup(r) ==
    /\ ScannedAt(r) # {}
    /\ \A s \in ScannedAt(r) :
           /\ s.hdr.ok
           /\ s.hdr.h.name = r.filename
           /\ s.hdr.h.comp = Group(r.filename).comp

\* C22: every section that dechunkify reads for a group was scanned with
\* the COMPRESSED flag of the group, and the transform of the step that
\* reads it is the one of the group that is being stitched
FedSectionsAgree ==
    /\ [](\A i \in DOMAIN reads : FlagOfGroup(reads[i]))
    /\ [][reads' # reads =>
             /\ pc = "section"
             /\ reads' = Append(reads, [filename |-> stitches[scan].filename,
                                        path |-> reads'[Len(reads')].path])
             /\ stitches[scan].comp
                    = (CHOOSE s \in ScannedAt(reads'[Len(reads')]) : TRUE)
                          .hdr.h.comp]_vars

\* a compressed group is stitched from its section while a candidate of the
\* same name without the flag was rejected by the scan
FedSectionsAgreeWitness ==
    /\ pc = "stitch_done"
    /\ stitched = <<FileName>>
    /\ Len(ReadsOf(FileName)) = 1
    /\ Group(FileName).comp
    /\ \E s \in Range(seen) :
           /\ s.raised = "inconsistent section compression"
           /\ s.hdr.h.name = FileName
           /\ ~s.hdr.h.comp


(***************************************************************************)
(* Properties of the ask singleton.                                        *)
(***************************************************************************)
\* the program is inside a `with ask` block: chunkify of split_file, or the
\* scan of stitch_files
InContext == pc \in {"read", "emit", "tail", "final", "register", "check"}

\* the prompts on record were answered as the state of ask at the prompt
\* allows: always only in a context that had not heard it, without input
\* exactly in a context that had, and by y or n outside of a context
AnsweredByState ==
    \A i \in DOMAIN asked :
        /\ asked[i].ctx \in {NONE, NO, YES}
        /\ asked[i].r = "a" => asked[i].ctx = NO
        /\ asked[i].r = "auto" <=> asked[i].ctx = YES
        /\ asked[i].ctx = NONE => asked[i].r \in {"y", "n"}

\* C23: ask is in one of its three states; it is NONE exactly outside of
\* the with blocks, whichever way they were left; no block is entered
\* while ask is in a context; the always answer is taken only inside a
\* context, whose later prompts are then answered without input; a
\* context that is entered starts at NO whatever was answered before
AskIsThreeState ==
    /\ [](/\ ask_ctx \in {NONE, NO, YES}
          /\ InContext <=> ask_ctx # NONE
          /\ exc # "Exception"
          /\ AnsweredByState
          /\ ask_ctx = YES => heard)
    /\ [][/\ (ask_ctx' = YES /\ ask_ctx # YES)
               => (ask_ctx = NO /\ asked' # <<>>
                   /\ asked'[Len(asked')].r = "a")
          /\ (ask_ctx = NONE /\ ask_ctx' # NONE) => ask_ctx' = NO
          /\ ask_ctx = YES => ask_ctx' \in {YES, NONE}
          /\ (InContext /\ InContext' /\ asked' # asked /\ asked' # <<>>
                 /\ asked'[Len(asked')].r = "a") => ask_ctx' = YES]_vars

\* after an always answer in the scan the stitch loop asks, outside of the
\* context, whether to overwrite, and is answered by hand
AskIsThreeStateWitness ==
    /\ heard
    /\ pc = "section"
    /\ ask_ctx = NONE
    /\ asked = <<[q |-> "overwrite", r |-> "y", ctx |-> NONE]>>

====
